---- MODULE Spec2Model ----
(***************************************************************************)
(* Restaurant Wall (src/src/App.tsx): the App component's state, the       *)
(* retrieval fallback chain (fetchRestaurants), the submission handler     *)
(* (handleAddRestaurant), the localStorage persistence effect and the      *)
(* filter/sort pipeline (filteredAndSortedRestaurants).                    *)
(*                                                                         *)
(* Strings whose characters matter (name, description, searchTerm,         *)
(* priceRange, priceFilter, the stored JSON text) are sequences of         *)
(* characters; the others are TLA+ strings.  An asynchronous function is   *)
(* cut into steps at its awaits; a promise continuation (a microtask) runs *)
(* before any other task.                                                  *)
(***************************************************************************)
EXTENDS Integers, Sequences, FiniteSets, TLC

VARIABLES restaurants, searchTerm, selectedCuisine, priceFilter, sortBy,
          isLoading, error, localStorage,
          mounted, effectPending, refreshes, submits,
          bootStorage, lastEnded

vars == <<restaurants, searchTerm, selectedCuisine, priceFilter, sortBy,
          isLoading, error, localStorage,
          mounted, effectPending, refreshes, submits,
          bootStorage, lastEnded>>

uiVars == <<searchTerm, selectedCuisine, priceFilter, sortBy>>

(***************************************************************************)
(* Bounds of the model.                                                    *)
(***************************************************************************)
\* number of submissions the user makes
MaxSubmits == 2
\* longest collection given to the filter/sort pipeline
MaxLen == 3

(***************************************************************************)
(* Restaurant records (src/unnamed/part_000, interface Restaurant).        *)
(***************************************************************************)
\* the character U+20AC of priceRange
Euro == "E"

Price(n) == [i \in 1..n |-> Euro]

Tofu == [id |-> "r1", name |-> <<"T", "o">>, description |-> <<"v">>,
         cuisine |-> "Thai", priceRange |-> Price(2), rating |-> 4,
         timestamp |-> 10]

Osteria == [id |-> "r2", name |-> <<"O">>, description |-> <<"t", "o">>,
            cuisine |-> "Italian", priceRange |-> Price(1), rating |-> 4,
            timestamp |-> 30]

Taqueria == [id |-> "r3", name |-> <<"t", "V">>, description |-> <<>>,
             cuisine |-> "Mexican", priceRange |-> Price(2), rating |-> 5,
             timestamp |-> 20]

Villa == [id |-> "r4", name |-> <<"V">>, description |-> <<"o">>,
          cuisine |-> "Italian", priceRange |-> Price(4), rating |-> 2,
          timestamp |-> 10]

Pool == {Tofu, Osteria, Taqueria, Villa}

\* the collections without a repeated record, up to MaxLen long
Collections ==
    UNION {{c \in [1..n -> Pool] : \A i, j \in 1..n : c[i] = c[j] => i = j}
           : n \in 0..MaxLen}

\* the bodies the GET endpoints answer with
Payloads == {<<>>, <<Tofu>>, <<Osteria, Tofu>>}

(***************************************************************************)
(* String operations of the pipeline.                                      *)
(***************************************************************************)
lowerChar(ch) ==
    CASE ch = "T" -> "t"
      [] ch = "O" -> "o"
      [] ch = "V" -> "v"
      [] OTHER -> ch

toLowerCase(s) == [i \in 1..Len(s) |-> lowerChar(s[i])]

includes(s, t) ==
    \E k \in 0..(Len(s) - Len(t)) : SubSeq(s, k + 1, k + Len(t)) = t

SearchTerms == {<<>>, <<"t">>, <<"O">>, <<"t", "o">>, <<"x">>}
Cuisines == {"All", "Italian", "Thai", "Japanese"}
All == <<"a", "l", "l">>
PriceFilters == {All, Price(1), Price(2), Price(3)}
SortKeys == {"newest", "oldest", "rating", "price-asc", "price-desc", "name"}

(***************************************************************************)
(* filteredAndSortedRestaurants (App.tsx 92-117).                          *)
(***************************************************************************)
matches(restaurant, term, cuisine, price) ==
    LET matchesSearch ==
            \/ includes(toLowerCase(restaurant.name), toLowerCase(term))
            \/ includes(toLowerCase(restaurant.description), toLowerCase(term))
        matchesCuisine == cuisine = "All" \/ restaurant.cuisine = cuisine
        matchesPrice == price = All \/ restaurant.priceRange = price
    IN  matchesSearch /\ matchesCuisine /\ matchesPrice

filter(c, term, cuisine, price) ==
    SelectSeq(c, LAMBDA r : matches(r, term, cuisine, price))

\* compare with the two timestamp keys giving the same order
compareOldestAsNewest(key, a, b) ==
    CASE key = "newest" -> b.timestamp - a.timestamp
      [] key = "oldest" -> b.timestamp - a.timestamp
      [] key = "rating" -> b.rating - a.rating
      [] key = "price-asc" -> Len(a.priceRange) - Len(b.priceRange)
      [] key = "price-desc" -> Len(b.priceRange) - Len(a.priceRange)
      [] OTHER -> 0

compare(key, a, b) ==
    CASE key = "newest" -> b.timestamp - a.timestamp
      [] key = "oldest" -> a.timestamp - b.timestamp
      [] key = "rating" -> b.rating - a.rating
      [] key = "price-asc" -> Len(a.priceRange) - Len(b.priceRange)
      [] key = "price-desc" -> Len(b.priceRange) - Len(a.priceRange)
      [] OTHER -> 0

\* x put into the sorted sequence s after every element it does not precede
RECURSIVE insert(_, _, _)
insert(key, s, x) ==
    IF s = <<>> THEN <<x>>
    ELSE IF compare(key, s[Len(s)], x) <= 0 THEN Append(s, x)
    ELSE Append(insert(key, SubSeq(s, 1, Len(s) - 1), x), s[Len(s)])

\* Array.prototype.sort: a stable sort by the comparator
RECURSIVE sort(_, _)
sort(key, s) ==
    IF s = <<>> THEN <<>>
    ELSE insert(key, sort(key, SubSeq(s, 1, Len(s) - 1)), s[Len(s)])

filteredAndSortedRestaurants ==
    sort(sortBy, filter(restaurants, searchTerm, selectedCuisine, priceFilter))

(***************************************************************************)
(* The error slot and local storage.                                       *)
(***************************************************************************)
\* error === null
NoError == "null"
LoadFailed == "Failed to load restaurants. Please try again later."
AddFailed == "Failed to add restaurant. Please try again."

StorageKey == "restaurants"

\* a storage area holding no item
NoStorage == [k \in {} |-> <<>>]

setItem(store, key, text) ==
    [k \in DOMAIN store \cup {key} |-> IF k = key THEN text ELSE store[k]]

\* the JSON text of an array: its brackets around its elements
LBracket == [tok |-> "["]
RBracket == [tok |-> "]"]

JSONstringify(c) == <<LBracket>> \o c \o <<RBracket>>

JSONparse(text) == SubSeq(text, 2, Len(text) - 1)

\* savedData = localStorage.getItem(key) is truthy: not null, not ""
truthyItem(store, key) == key \in DOMAIN store /\ store[key] # <<>>

\* what local storage may hold before the application loads
BootStorages ==
    {NoStorage} \cup {setItem(NoStorage, StorageKey, JSONstringify(c)) : c \in Payloads}

(***************************************************************************)
(* Processes: the calls of fetchRestaurants and of handleAddRestaurant.    *)
(* refreshes[r].by is the submission that called it, 0 for the load        *)
(* effect.  lastEnded records the call of fetchRestaurants that returned   *)
(* last (r, 0 before any has), the source it ended on, the collection it   *)
(* set and whether it called localStorage.getItem.                         *)
(***************************************************************************)
newRefresh(by) == [pc |-> "primary", by |-> by]

ended(r, source, data, read) ==
    [r |-> r, source |-> source, data |-> data, cacheRead |-> read]

InFlight(r) == r \in DOMAIN refreshes /\ refreshes[r].pc # "done"

\* a handleAddRestaurant whose awaited fetchRestaurants has returned: its
\* continuation is a microtask, which runs before any other task
MicrotaskPending ==
    \E s \in DOMAIN submits :
        /\ submits[s].pc = "refreshing"
        /\ refreshes[submits[s].refresh].pc = "done"

Init ==
    /\ restaurants = <<>>
    /\ searchTerm = <<>>
    /\ selectedCuisine = "All"
    /\ priceFilter = All
    /\ sortBy = "newest"
    /\ isLoading = TRUE
    /\ error = NoError
    /\ localStorage \in BootStorages
    /\ bootStorage = localStorage
    /\ mounted = FALSE
    /\ effectPending = FALSE
    /\ refreshes = <<>>
    /\ submits = <<>>
    /\ lastEnded = ended(0, "none", <<>>, FALSE)

\* the effects of the first render, in order: fetchRestaurants() up to its
\* first await (App.tsx 23-25, 29-32), then the persistence effect (120-122)
Mount ==
    /\ ~mounted
    /\ mounted' = TRUE
    /\ isLoading' = TRUE
    /\ refreshes' = Append(refreshes, newRefresh(0))
    /\ localStorage' = setItem(localStorage, StorageKey, JSONstringify(restaurants))
    /\ UNCHANGED <<restaurants, uiVars, error, effectPending, submits,
                   bootStorage, lastEnded>>

\* PrimaryOk dropping the answer of a refresh that is not the latest started
PrimaryOkLatestOnly(r, data) ==
    /\ ~MicrotaskPending
    /\ r \in DOMAIN refreshes
    /\ refreshes[r].pc = "primary"
    /\ IF r = Len(refreshes)
       THEN /\ restaurants' = data
            /\ effectPending' = TRUE
       ELSE UNCHANGED <<restaurants, effectPending>>
    /\ error' = NoError
    /\ isLoading' = FALSE
    /\ refreshes' = [refreshes EXCEPT ![r].pc = "done"]
    /\ lastEnded' = ended(r, "primary", data, FALSE)
    /\ UNCHANGED <<uiVars, localStorage, mounted, submits, bootStorage>>

\* the primary GET answers 200 with a JSON body (App.tsx 32-37, 61-63)
PrimaryOk(r, data) ==
    /\ ~MicrotaskPending
    /\ r \in DOMAIN refreshes
    /\ refreshes[r].pc = "primary"
    /\ restaurants' = data
    /\ error' = NoError
    /\ isLoading' = FALSE
    /\ effectPending' = TRUE
    /\ refreshes' = [refreshes EXCEPT ![r].pc = "done"]
    /\ lastEnded' = ended(r, "primary", data, FALSE)
    /\ UNCHANGED <<uiVars, localStorage, mounted, submits, bootStorage>>

\* the primary GET fails: rejected, not ok, or a body that is no JSON
\* (App.tsx 32-34, 38-44)
PrimaryFails(r) ==
    /\ ~MicrotaskPending
    /\ r \in DOMAIN refreshes
    /\ refreshes[r].pc = "primary"
    /\ refreshes' = [refreshes EXCEPT ![r].pc = "secondary"]
    /\ UNCHANGED <<restaurants, uiVars, isLoading, error, localStorage, mounted,
                   effectPending, submits, bootStorage, lastEnded>>

\* SecondaryOk without its setError(null)
SecondaryOkKeepsError(r, data) ==
    /\ ~MicrotaskPending
    /\ r \in DOMAIN refreshes
    /\ refreshes[r].pc = "secondary"
    /\ restaurants' = data
    /\ isLoading' = FALSE
    /\ effectPending' = TRUE
    /\ refreshes' = [refreshes EXCEPT ![r].pc = "done"]
    /\ lastEnded' = ended(r, "secondary", data, FALSE)
    /\ UNCHANGED <<uiVars, error, localStorage, mounted, submits, bootStorage>>

\* the localhost GET answers 200 with a JSON body (App.tsx 44-48, 61-63)
SecondaryOk(r, data) ==
    /\ ~MicrotaskPending
    /\ r \in DOMAIN refreshes
    /\ refreshes[r].pc = "secondary"
    /\ restaurants' = data
    /\ error' = NoError
    /\ isLoading' = FALSE
    /\ effectPending' = TRUE
    /\ refreshes' = [refreshes EXCEPT ![r].pc = "done"]
    /\ lastEnded' = ended(r, "secondary", data, FALSE)
    /\ UNCHANGED <<uiVars, localStorage, mounted, submits, bootStorage>>

\* the localhost GET fails too: the outer catch (App.tsx 49-63)
SecondaryFails(r) ==
    /\ ~MicrotaskPending
    /\ r \in DOMAIN refreshes
    /\ refreshes[r].pc = "secondary"
    /\ IF truthyItem(localStorage, StorageKey)
       THEN /\ restaurants' = JSONparse(localStorage[StorageKey])
            /\ error' = NoError
            /\ effectPending' = TRUE
            /\ lastEnded' = ended(r, "cache",
                                  JSONparse(localStorage[StorageKey]), TRUE)
       ELSE /\ error' = LoadFailed
            /\ lastEnded' = ended(r, "failed", <<>>, TRUE)
            /\ UNCHANGED <<restaurants, effectPending>>
    /\ isLoading' = FALSE
    /\ refreshes' = [refreshes EXCEPT ![r].pc = "done"]
    /\ UNCHANGED <<uiVars, localStorage, mounted, submits, bootStorage>>

\* the persistence effect with an empty dependency list: it writes on mount only
PersistEffectOnMountOnly ==
    /\ ~MicrotaskPending
    /\ effectPending
    /\ effectPending' = FALSE
    /\ UNCHANGED <<restaurants, uiVars, isLoading, error, localStorage, mounted,
                   refreshes, submits, bootStorage, lastEnded>>

\* the persistence effect of a render in which restaurants changed
\* (App.tsx 119-122)
PersistEffect ==
    /\ ~MicrotaskPending
    /\ effectPending
    /\ localStorage' = setItem(localStorage, StorageKey, JSONstringify(restaurants))
    /\ effectPending' = FALSE
    /\ UNCHANGED <<restaurants, uiVars, isLoading, error, mounted, refreshes,
                   submits, bootStorage, lastEnded>>

\* handleAddRestaurant up to its await of the POST (App.tsx 66-80)
SubmitStart ==
    /\ ~MicrotaskPending
    /\ mounted
    /\ Len(submits) < MaxSubmits
    /\ submits' = Append(submits, [pc |-> "posting", refresh |-> 0, posts |-> 1])
    /\ UNCHANGED <<restaurants, uiVars, isLoading, error, localStorage, mounted,
                   effectPending, refreshes, bootStorage, lastEnded>>

\* PostOk that also inserts the new record into the collection
PostOkAppendsLocally(s) ==
    /\ ~MicrotaskPending
    /\ s \in DOMAIN submits
    /\ submits[s].pc = "posting"
    /\ restaurants' = Append(restaurants, Villa)
    /\ effectPending' = TRUE
    /\ isLoading' = TRUE
    /\ refreshes' = Append(refreshes, newRefresh(s))
    /\ submits' = [submits EXCEPT ![s] = [pc |-> "refreshing",
                                          refresh |-> Len(refreshes) + 1,
                                          posts |-> @.posts]]
    /\ UNCHANGED <<uiVars, error, localStorage, mounted, bootStorage,
                   lastEnded>>

\* the POST answers with a success status: fetchRestaurants() is called and
\* runs up to its first await (App.tsx 82-84, 29-32)
PostOk(s) ==
    /\ ~MicrotaskPending
    /\ s \in DOMAIN submits
    /\ submits[s].pc = "posting"
    /\ isLoading' = TRUE
    /\ refreshes' = Append(refreshes, newRefresh(s))
    /\ submits' = [submits EXCEPT ![s] = [pc |-> "refreshing",
                                          refresh |-> Len(refreshes) + 1,
                                          posts |-> @.posts]]
    /\ UNCHANGED <<restaurants, uiVars, error, localStorage, mounted,
                   effectPending, bootStorage, lastEnded>>

\* PostFails that refreshes all the same
PostFailsRefreshes(s) ==
    /\ ~MicrotaskPending
    /\ s \in DOMAIN submits
    /\ submits[s].pc = "posting"
    /\ error' = AddFailed
    /\ isLoading' = TRUE
    /\ refreshes' = Append(refreshes, newRefresh(s))
    /\ submits' = [submits EXCEPT ![s].pc = "failed"]
    /\ UNCHANGED <<restaurants, uiVars, localStorage, mounted, effectPending,
                   bootStorage, lastEnded>>

\* the POST is rejected or answers another status (App.tsx 82, 86-89)
PostFails(s) ==
    /\ ~MicrotaskPending
    /\ s \in DOMAIN submits
    /\ submits[s].pc = "posting"
    /\ error' = AddFailed
    /\ submits' = [submits EXCEPT ![s].pc = "failed"]
    /\ UNCHANGED <<restaurants, uiVars, isLoading, localStorage, mounted,
                   effectPending, refreshes, bootStorage, lastEnded>>

\* the awaited fetchRestaurants() has returned (App.tsx 84-85)
SubmitFinish(s) ==
    /\ s \in DOMAIN submits
    /\ submits[s].pc = "refreshing"
    /\ refreshes[submits[s].refresh].pc = "done"
    /\ error' = NoError
    /\ submits' = [submits EXCEPT ![s].pc = "done"]
    /\ UNCHANGED <<restaurants, uiVars, isLoading, localStorage, mounted,
                   effectPending, refreshes, bootStorage, lastEnded>>

\* the item is removed from outside the application (site data cleared, or
\* another page of the origin): the case getItem() === null of App.tsx 56-57
StorageCleared ==
    /\ ~MicrotaskPending
    /\ mounted
    /\ StorageKey \in DOMAIN localStorage
    /\ localStorage' = NoStorage
    /\ UNCHANGED <<restaurants, uiVars, isLoading, error, mounted, effectPending,
                   refreshes, submits, bootStorage, lastEnded>>

Refreshes == 1..(MaxSubmits + 1)
Submits == 1..MaxSubmits

Next ==
    \/ Mount
    \/ \E r \in Refreshes, data \in Payloads : PrimaryOk(r, data)
    \/ \E r \in Refreshes : PrimaryFails(r)
    \/ \E r \in Refreshes, data \in Payloads : SecondaryOk(r, data)
    \/ \E r \in Refreshes : SecondaryFails(r)
    \/ PersistEffect
    \/ SubmitStart
    \/ \E s \in Submits : PostOk(s)
    \/ \E s \in Submits : PostFails(s)
    \/ \E s \in Submits : SubmitFinish(s)

Spec == Init /\ [][Next]_vars

\* the application in a browser whose storage can be emptied under it
NextEnv == Next \/ StorageCleared

SpecEnv == Init /\ [][NextEnv]_vars

(***************************************************************************)
(* The filter controls (App.tsx 15-18, 154-163) over a loaded collection.  *)
(***************************************************************************)
InitPipeline ==
    /\ restaurants \in Collections
    /\ searchTerm = <<>>
    /\ selectedCuisine = "All"
    /\ priceFilter = All
    /\ sortBy = "newest"
    /\ isLoading = FALSE
    /\ error = NoError
    /\ localStorage = setItem(NoStorage, StorageKey, JSONstringify(restaurants))
    /\ bootStorage = NoStorage
    /\ mounted = TRUE
    /\ effectPending = FALSE
    /\ refreshes = <<>>
    /\ submits = <<>>
    /\ lastEnded = ended(0, "none", <<>>, FALSE)

setSearchTerm(term) ==
    /\ searchTerm' = term
    /\ UNCHANGED <<restaurants, selectedCuisine, priceFilter, sortBy, isLoading,
                   error, localStorage, mounted, effectPending, refreshes,
                   submits, bootStorage, lastEnded>>

setSelectedCuisine(cuisine) ==
    /\ selectedCuisine' = cuisine
    /\ UNCHANGED <<restaurants, searchTerm, priceFilter, sortBy, isLoading,
                   error, localStorage, mounted, effectPending, refreshes,
                   submits, bootStorage, lastEnded>>

setPriceFilter(price) ==
    /\ priceFilter' = price
    /\ UNCHANGED <<restaurants, searchTerm, selectedCuisine, sortBy, isLoading,
                   error, localStorage, mounted, effectPending, refreshes,
                   submits, bootStorage, lastEnded>>

setSortBy(key) ==
    /\ sortBy' = key
    /\ UNCHANGED <<restaurants, searchTerm, selectedCuisine, priceFilter,
                   isLoading, error, localStorage, mounted, effectPending,
                   refreshes, submits, bootStorage, lastEnded>>

NextPipeline ==
    \/ \E term \in SearchTerms : setSearchTerm(term)
    \/ \E cuisine \in Cuisines : setSelectedCuisine(cuisine)
    \/ \E price \in PriceFilters : setPriceFilter(price)
    \/ \E key \in SortKeys : setSortBy(key)

SpecPipeline == InitPipeline /\ [][NextPipeline]_vars

(***************************************************************************)
(* Steps of the processes, as seen in a pair of states.                    *)
(***************************************************************************)
\* refresh r ends in this step on the answer of the localhost request
EndsOnSecondary(r) ==
    /\ refreshes[r].pc = "secondary"
    /\ refreshes'[r].pc = "done"
    /\ lastEnded'.r = r
    /\ lastEnded'.source = "secondary"

\* refresh r ends in this step after both of its requests failed
EndsAfterBothFailed(r) ==
    /\ refreshes[r].pc = "secondary"
    /\ refreshes'[r].pc = "done"
    /\ lastEnded'.r = r
    /\ lastEnded'.source \in {"cache", "failed"}

\* the storage the claims speak of when refresh r falls back to the cache:
\* for the load refresh, a snapshot left before the application loaded
cachedFor(r) ==
    IF refreshes[r].by = 0 /\ truthyItem(bootStorage, StorageKey)
    THEN bootStorage
    ELSE localStorage

\* refresh r finds no cached collection: for the load refresh, none was stored
\* before the application loaded
noCacheFor(r) ==
    IF refreshes[r].by = 0
    THEN ~truthyItem(bootStorage, StorageKey)
    ELSE ~truthyItem(localStorage, StorageKey)

AllDone == \A r \in DOMAIN refreshes : refreshes[r].pc = "done"

refreshesBy(s) == {r \in DOMAIN refreshes : refreshes[r].by = s}

(***************************************************************************)
(* C1: a refresh whose two requests fail, with a cached collection P in    *)
(* local storage (for the load refresh, the snapshot left there before the *)
(* application loaded), ends with the collection equal to P and no error.  *)
(***************************************************************************)
C1_CacheRecovered ==
    [][\A r \in DOMAIN refreshes :
          (EndsAfterBothFailed(r) /\ truthyItem(cachedFor(r), StorageKey))
          => /\ restaurants' = JSONparse(cachedFor(r)[StorageKey])
             /\ error' = NoError]_vars

(***************************************************************************)
(* C2: a refresh whose two requests fail with no cached collection         *)
(* available (on first load: none stored before the application loaded)    *)
(* ends with the collection unchanged and the retrieval error shown.       *)
(***************************************************************************)
C2_TotalFailureShown ==
    [][\A r \in DOMAIN refreshes :
          (EndsAfterBothFailed(r) /\ noCacheFor(r))
          => /\ restaurants' = restaurants
             /\ error' = LoadFailed]_vars

(***************************************************************************)
(* C3: a refresh whose primary request fails and whose localhost request   *)
(* answers S ends with the collection equal to S and no error, whatever    *)
(* was held before, and has not read the cache.                            *)
(***************************************************************************)
C3_SecondaryAdopted ==
    [][\A r \in DOMAIN refreshes :
          EndsOnSecondary(r)
          => /\ lastEnded'.data \in Payloads
             /\ restaurants' = lastEnded'.data
             /\ error' = NoError
             /\ ~lastEnded'.cacheRead]_vars

\* the localhost answer replaced another collection and an error message
C3_Witness ==
    /\ lastEnded.source = "secondary"
    /\ lastEnded.r >= 2
    /\ restaurants = lastEnded.data
    /\ \E s \in DOMAIN submits : submits[s].pc = "failed"
    /\ error = NoError
    /\ ~MicrotaskPending

(***************************************************************************)
(* C4: a submit whose POST fails shows 'Failed to add restaurant. Please   *)
(* try again.'; none of its steps changes the collection or the cache, it  *)
(* starts no refresh and its POST is sent once.                            *)
(***************************************************************************)
C4_FailedSubmitFrame ==
    [][\A s \in DOMAIN submits' :
          /\ (s \notin DOMAIN submits)
             => /\ restaurants' = restaurants
                /\ localStorage' = localStorage
                /\ effectPending' = effectPending
          /\ (s \in DOMAIN submits /\ submits[s].pc = "posting"
                /\ submits'[s].pc = "failed")
             => /\ error' = AddFailed
                /\ restaurants' = restaurants
                /\ localStorage' = localStorage
                /\ effectPending' = effectPending
                /\ refreshes' = refreshes
                /\ submits'[s].posts = 1
          /\ (s \in DOMAIN submits /\ submits[s].pc = "failed")
             => /\ submits'[s] = submits[s]
                /\ refreshesBy(s)' = {}]_vars

\* a submit failed while a collection was loaded and cached
C4_Witness ==
    /\ \E s \in DOMAIN submits : submits[s].pc = "failed"
    /\ error = AddFailed
    /\ restaurants # <<>>
    /\ localStorage = setItem(NoStorage, StorageKey, JSONstringify(restaurants))
    /\ AllDone

(***************************************************************************)
(* C5: a submit whose POST succeeds starts exactly one refresh, and none   *)
(* before the POST is answered; no step of a submit changes the            *)
(* collection, whose every new value is a payload of a network source or   *)
(* the parsed cache.                                                       *)
(***************************************************************************)
C5_SubmitResynchronizes ==
    [][/\ \A s \in DOMAIN submits' :
             Cardinality(refreshesBy(s)') =
                 IF submits'[s].pc \in {"refreshing", "done"} THEN 1 ELSE 0
       /\ \A s \in DOMAIN submits' :
             (s \in DOMAIN submits /\ submits'[s].pc = "refreshing")
             => /\ submits'[s].refresh \in refreshesBy(s)'
                /\ (submits[s].pc = "posting"
                    => submits'[s].refresh \notin DOMAIN refreshes)
       /\ (submits' # submits) => (restaurants' = restaurants)
       /\ (restaurants' # restaurants)
          => \/ restaurants' \in Payloads
             \/ /\ truthyItem(localStorage, StorageKey)
                /\ restaurants' = JSONparse(localStorage[StorageKey])]_vars

\* a submit has finished after its one refresh brought a collection
C5_Witness ==
    \E s \in DOMAIN submits :
        /\ submits[s].pc = "done"
        /\ refreshesBy(s) = {submits[s].refresh}
        /\ lastEnded.r = submits[s].refresh
        /\ restaurants = lastEnded.data
        /\ restaurants # <<>>

(***************************************************************************)
(* C6: once the persistence effect of the latest change of the collection  *)
(* has run, the snapshot under 'restaurants' is the serialized collection; *)
(* every change of the collection schedules the effect, and the snapshot   *)
(* is only ever written with the collection of that moment.                *)
(***************************************************************************)
C6_SnapshotFollows ==
    /\ [](mounted /\ ~effectPending
          => localStorage = setItem(NoStorage, StorageKey, JSONstringify(restaurants)))
    /\ [][/\ (restaurants' # restaurants) => effectPending'
          /\ (localStorage' # localStorage)
             => localStorage' = setItem(localStorage, StorageKey,
                                        JSONstringify(restaurants))]_vars

\* the effect has overwritten the snapshot of an earlier collection
C6_Witness ==
    /\ mounted
    /\ ~effectPending
    /\ AllDone
    /\ lastEnded.r >= 2
    /\ restaurants # <<>>
    /\ localStorage[StorageKey] = JSONstringify(restaurants)

(***************************************************************************)
(* C7: when every refresh has completed and the persistence effect has     *)
(* run, the collection and the snapshot are the ones of the refresh that   *)
(* completed last, in whatever order the refreshes were started.           *)
(***************************************************************************)
C7_LastCompletedWins ==
    (AllDone /\ lastEnded.r # 0 /\ ~effectPending)
    => /\ lastEnded.source \in {"primary", "secondary", "cache"}
       /\ restaurants = lastEnded.data
       /\ localStorage[StorageKey] = JSONstringify(lastEnded.data)

\* the load refresh completed after the refreshes started later, and its
\* payload is the one held and stored
C7_Witness ==
    /\ AllDone
    /\ ~effectPending
    /\ Len(refreshes) >= 2
    /\ lastEnded.r = 1
    /\ lastEnded.source \in {"primary", "secondary"}
    /\ restaurants = lastEnded.data
    /\ localStorage[StorageKey] = JSONstringify(lastEnded.data)

(***************************************************************************)
(* C8: the pipeline's result is a permutation of the restaurants of the    *)
(* collection that pass the filters, monotone in the sort key (timestamp   *)
(* descending / ascending, rating descending, price tier ascending /       *)
(* descending); ties keep the collection's order, and so does everything   *)
(* under an unrecognized key.                                              *)
(***************************************************************************)
tier(r) == Len(r.priceRange)

rank(key, r) ==
    CASE key = "newest" -> 0 - r.timestamp
      [] key = "oldest" -> r.timestamp
      [] key = "rating" -> 0 - r.rating
      [] key = "price-asc" -> tier(r)
      [] key = "price-desc" -> 0 - tier(r)
      [] OTHER -> 0

position(c, x) == CHOOSE i \in 1..Len(c) : c[i] = x

C8_PipelineSorted ==
    LET out == filteredAndSortedRestaurants
        passing == {i \in 1..Len(restaurants) :
                       matches(restaurants[i], searchTerm, selectedCuisine,
                               priceFilter)}
    IN  /\ Len(out) = Cardinality(passing)
        /\ \A i \in passing : \E j \in 1..Len(out) : out[j] = restaurants[i]
        /\ \A j \in 1..Len(out) : \E i \in passing : out[j] = restaurants[i]
        /\ \A j, k \in 1..Len(out) :
              j < k => \/ rank(sortBy, out[j]) < rank(sortBy, out[k])
                       \/ /\ rank(sortBy, out[j]) = rank(sortBy, out[k])
                          /\ position(restaurants, out[j])
                             < position(restaurants, out[k])

\* a filter dropped a restaurant, the sort moved one and a tie kept its order
C8_Witness ==
    LET out == filteredAndSortedRestaurants
    IN  /\ sortBy = "rating"
        /\ Len(restaurants) = MaxLen
        /\ Len(out) = MaxLen - 1
        /\ selectedCuisine # "All"
        /\ out # filter(restaurants, searchTerm, selectedCuisine, priceFilter)

(***************************************************************************)
(* C9: after a refresh in which every source failed (both requests, no     *)
(* cached collection adopted), the error slot is non-empty when the        *)
(* operation that ran the refresh has finished, also when that operation   *)
(* is a submit whose POST succeeded.                                       *)
(***************************************************************************)
C9_FailureStaysShown ==
    [][/\ \A r \in DOMAIN refreshes :
             (EndsAfterBothFailed(r) /\ lastEnded'.source = "failed"
                /\ refreshes[r].by = 0)
             => error' # NoError
       /\ \A s \in DOMAIN submits :
             (submits[s].pc = "refreshing" /\ submits'[s].pc = "done"
                /\ lastEnded.r = submits[s].refresh
                /\ lastEnded.source = "failed")
             => error' # NoError]_vars

(***************************************************************************)
(* C10: isLoading is true in every state in which a refresh has started    *)
(* and not completed, and false once no refresh is in flight.              *)
(***************************************************************************)
C10_LoadingTracksRefreshes ==
    /\ (\E r \in DOMAIN refreshes : InFlight(r)) => isLoading
    /\ (mounted /\ AllDone) => ~isLoading

====
